---- MODULE Spec2Model ----
(***************************************************************************)
(* MyShell_RFD: the snapshot/rollback manager (core/rollback.py) and the   *)
(* config-section editor (utils/files.py, core/module_base.py).            *)
(*                                                                         *)
(* Spec        the RollbackManager over one file.                          *)
(* SpecIds     the same, where uuid4 may repeat a value.                   *)
(* SpecFiles   the RollbackManager over two files of one base name, with   *)
(*             file operations that may fail.                              *)
(* SpecFaults  the RollbackManager over the two files with a create_snapshot *)
(*             that may fail, without rollback.                            *)
(* SpecPeers   two RollbackManager instances on one directory.             *)
(* SpecInstaller  install_module, uninstall_module and clean_config of     *)
(*             InstallerService, and rollback.                             *)
(* SpecLoad    RollbackManager.__init__ on the index files it may find.    *)
(* SpecProfiles  switch_profile, create_profile, delete_profile and        *)
(*             import_profile of AppConfig.                                *)
(* SpecConfig  add_to_config / remove_from_config / check_installed over   *)
(*             one config file.                                            *)
(***************************************************************************)
EXTENDS Integers, Sequences, FiniteSets, TLC

VARIABLES
    max_snapshots,   \* RollbackManager._max_snapshots
    snapshots,       \* RollbackManager._snapshots, newest first
    indexFile,       \* content of SNAPSHOT_INDEX as written by _save_index
    dirs,            \* SNAPSHOTS_DIR/<id>: does it exist, and its files by base name
    fs,              \* the files snapshots are taken of: path -> content or Absent
    usedIds,         \* every value uuid4 has returned so far
    nCreated,        \* number of create_snapshot calls completed (the model's clock)
    explicitRemoval, \* has delete_snapshot or clear_all removed an entry
    last,            \* the last RollbackManager call: arguments, result, state before
    cfg,             \* the shell config file: [exists, text]
    backupDir,       \* FileOperations._backup_dir: timestamp -> backup copy
    clock,           \* datetime.now() to the second
    hist,            \* the add_to_config/remove_from_config calls made, in order
    peer,            \* _snapshots of a second RollbackManager on the same directory
    profiles,        \* AppConfig.profiles: name -> ProfileConfig
    active_profile,  \* AppConfig.active_profile
    outcome          \* the last AppConfig call: arguments, exception, state before

rbVars  == <<max_snapshots, snapshots, indexFile, dirs, fs, usedIds, nCreated,
             explicitRemoval, last, peer>>
cfgVars == <<cfg, backupDir, clock, hist>>
appVars == <<profiles, active_profile, outcome>>
\* what the calls on the one RollbackManager leave alone
idleVars == <<cfg, backupDir, clock, hist, peer, profiles, active_profile, outcome>>
vars    == <<max_snapshots, snapshots, indexFile, dirs, fs, usedIds, nCreated,
             explicitRemoval, last, cfg, backupDir, clock, hist, peer,
             profiles, active_profile, outcome>>

(***************************************************************************)
(* Bounds                                                                  *)
(***************************************************************************)
MaxCap     == 2      \* largest max_snapshots a manager is constructed with
MaxCreates == 3      \* create_snapshot calls per behaviour
MaxFileCreates == 2  \* the same, where two files are followed

CharOrder == <<"a", "b">>
Chars    == {CharOrder[i] : i \in 1..Len(CharOrder)}
Ids      == {<<x, y>> : x, y \in Chars}
Prefixes == {<<>>} \cup {<<x>> : x \in Chars} \cup Ids

Absent   == "absent"
Contents == {"v1", "v2"}
P1 == [dir |-> "d1", name |-> "a"]
P2 == [dir |-> "d2", name |-> "a"]      \* another directory, the same base name
SamePaths == {P1, P2}
\* the files of InstallerService
SHELL_CONFIG_FILE == [dir |-> "myshell_rfd", name |-> "config"]
ZSHRC             == [dir |-> "home", name |-> ".zshrc"]
CONFIG_FILE       == [dir |-> "myshell_rfd", name |-> "config.toml"]
InstallerPaths    == {SHELL_CONFIG_FILE, ZSHRC, CONFIG_FILE}
Paths    == SamePaths \cup InstallerPaths
BaseNames == {p.name : p \in Paths}

\* Spec follows one file: the files arguments tried are none and that file
OnePath   == {P1}
FileLists == {<<>>, <<P1>>}
\* SpecFiles follows two files of one base name, always given together
BothFiles == {<<P1, P2>>}

None == <<"None">>
UserDescription == <<"Before change">>
ModuleLists == {<<"TestModule">>}

(***************************************************************************)
(* core/config.py: the profiles of AppConfig.  A ProfileConfig is its name *)
(* and description; profiles is a function on the names it holds.  An      *)
(* argument left out (None) is the empty string, which the code's          *)
(* truthiness tests treat alike.                                           *)
(***************************************************************************)
ProfileNames == {"default", "work", "test"}
Descriptions == {"", "d"}

ProfileConfig(name, description) == [name |-> name, description |-> description]

\* profiles[name] = profile
SetProfile(ps, name, profile) ==
    [n \in DOMAIN ps \cup {name} |-> IF n = name THEN profile ELSE ps[n]]

\* del profiles[name]
DelProfile(ps, name) == [n \in DOMAIN ps \ {name} |-> ps[n]]

\* AppConfig(): __post_init__ adds the default profile
DefaultProfiles == SetProfile(<<>>, "default", ProfileConfig("default", ""))

\* the state of an AppConfig c = [profiles, active_profile] after a call, and
\* the exception the call raised ("" for none)
Returned(ps, active) == [profiles |-> ps, active_profile |-> active, raised |-> ""]
Raised(c, exception) ==
    [profiles |-> c.profiles, active_profile |-> c.active_profile,
     raised |-> exception]

SwitchedProfile(c, name) ==
    IF name \notin DOMAIN c.profiles THEN Raised(c, "ValueError")
    ELSE Returned(c.profiles, name)

CreatedProfile(c, name, description, copy_from) ==
    IF name \in DOMAIN c.profiles THEN Raised(c, "ValueError")
    ELSE IF copy_from # "" /\ copy_from \in DOMAIN c.profiles
         THEN Returned(SetProfile(c.profiles, name,
                          ProfileConfig(name,
                              IF description # "" THEN description
                              ELSE c.profiles[copy_from].description)),
                       c.active_profile)
         ELSE Returned(SetProfile(c.profiles, name, ProfileConfig(name, description)),
                       c.active_profile)

\* delete_profile without the test for the active profile
DeletedProfileUnguarded(c, name) ==
    IF name \in DOMAIN c.profiles
    THEN Returned(DelProfile(c.profiles, name), c.active_profile)
    ELSE Returned(c.profiles, c.active_profile)

DeletedProfile(c, name) ==
    IF name = c.active_profile THEN Raised(c, "ValueError")
    ELSE IF name \in DOMAIN c.profiles
         THEN Returned(DelProfile(c.profiles, name), c.active_profile)
         ELSE Returned(c.profiles, c.active_profile)

\* ProfileConfig.from_dict: name and description with their defaults
ProfileFromDict(data) ==
    ProfileConfig(IF "name" \in DOMAIN data THEN data.name ELSE "default",
                  IF "description" \in DOMAIN data THEN data.description ELSE "")

\* import_profile of a file: missing, not TOML, or the table it holds
ImportedProfile(c, file, name) ==
    IF file.kind = "missing" THEN Raised(c, "FileNotFoundError")
    ELSE IF file.kind = "invalid" THEN Raised(c, "TOMLDecodeError")
    ELSE LET read    == ProfileFromDict(file.data)
             profile == IF name # "" THEN [read EXCEPT !.name = name] ELSE read
         IN  Returned(SetProfile(c.profiles, profile.name, profile), c.active_profile)

\* the files import_profile is given
ProfileFiles ==
    {[kind |-> "missing", data |-> <<>>], [kind |-> "invalid", data |-> <<>>]}
    \cup {[kind |-> "toml", data |-> [name |-> n, description |-> d]] :
             n \in ProfileNames, d \in Descriptions}
    \cup {[kind |-> "toml", data |-> [description |-> "d"]]}

AppConfig == [profiles |-> profiles, active_profile |-> active_profile]

\* a call on the AppConfig: its state after it, and what the call was
AppCall(op, name, result) ==
    /\ profiles' = result.profiles
    /\ active_profile' = result.active_profile
    /\ outcome' = [op |-> op, name |-> name, raised |-> result.raised,
                   before |-> AppConfig]
    /\ UNCHANGED <<rbVars, cfgVars>>

SwitchProfile(name) == AppCall("switch", name, SwitchedProfile(AppConfig, name))

CreateProfile(name, description, copy_from) ==
    AppCall("create", name, CreatedProfile(AppConfig, name, description, copy_from))

DeleteProfile(name) == AppCall("delete", name, DeletedProfile(AppConfig, name))

ImportProfile(file, name) ==
    AppCall("import", name, ImportedProfile(AppConfig, file, name))

\* AppConfig()
AppIdle ==
    /\ profiles = DefaultProfiles
    /\ active_profile = "default"
    /\ outcome = [op |-> "init", name |-> "", raised |-> "",
                  before |-> [profiles |-> DefaultProfiles,
                              active_profile |-> "default"]]

NextProfiles ==
    \/ \E name \in ProfileNames : SwitchProfile(name)
    \/ \E name \in ProfileNames, description \in Descriptions,
          copy_from \in ProfileNames \cup {""} :
         CreateProfile(name, description, copy_from)
    \/ \E name \in ProfileNames : DeleteProfile(name)
    \/ \E file \in ProfileFiles, name \in ProfileNames \cup {""} :
         ImportProfile(file, name)

(***************************************************************************)
(* core/rollback.py                                                        *)
(***************************************************************************)
EmptyPath == [dir |-> <<>>, name |-> ""]
BackupPath(id, name) == [dir |-> id, name |-> name]

SnapshotFile(original_path, backup_path, existed) ==
    [original_path |-> original_path, backup_path |-> backup_path, existed |-> existed]

NoDir == [exists |-> FALSE, files |-> [n \in BaseNames |-> Absent]]

\* Path(p).exists() for a backup path
BackupExists(ds, bp) ==
    /\ bp.dir \in Ids
    /\ ds[bp.dir].exists
    /\ bp.name \in BaseNames
    /\ ds[bp.dir].files[bp.name] # Absent

\* snapshot_dir.mkdir(parents=True, exist_ok=True)
Mkdir(ds, id) == [ds EXCEPT ![id].exists = TRUE]

\* a removal that leaves the directory in place
RmtreeSkipped(ds, id) == ds

\* shutil.rmtree(snapshot_dir) when it exists
Rmtree(ds, id) == [ds EXCEPT ![id] = NoDir]

\* Snapshot.create: modules or []
SnapshotCreate(id, now, description, modules) ==
    [id          |-> id,
     created_at  |-> now,
     description |-> description,
     files       |-> <<>>,
     modules     |-> IF modules = None THEN <<>> ELSE modules,
     taken       |-> [p \in Paths |-> Absent]]

NoSnapshot == SnapshotCreate(<<>>, 0, <<>>, None)

\* Snapshot.to_dict
ToDict(s) ==
    [id |-> s.id, created_at |-> s.created_at, description |-> s.description,
     files |-> s.files, modules |-> s.modules]

\* What SNAPSHOT_INDEX holds, as json.load sees it.  A JSON object is the record
\* of its keys; a JSON value that is no object and no list is [json |-> kind];
\* the document as a whole is [json |-> kind, items |-> the entries of a list].
JsonList(items) == [json |-> "list", items |-> items]
NoIndex == [json |-> "missing", items |-> <<>>]      \* the file does not exist

\* _save_index leaving out the newest snapshot
SaveIndexButNewest(snaps) ==
    JsonList([i \in 1..(Len(snaps) - 1) |-> ToDict(snaps[i + 1])])

\* _save_index: the full list, rewritten
SaveIndex(snaps) == JsonList([i \in 1..Len(snaps) |-> ToDict(snaps[i])])

StartsWith(s, prefix) ==
    /\ Len(prefix) <= Len(s)
    /\ SubSeq(s, 1, Len(prefix)) = prefix

\* get_snapshot returning the last match instead of the first
GetSnapshotLast(snaps, snapshot_id) ==
    LET hits == {i \in 1..Len(snaps) : StartsWith(snaps[i].id, snapshot_id)}
    IN  IF hits = {} THEN 0 ELSE CHOOSE i \in hits : \A j \in hits : i >= j

\* get_snapshot falling back to the newest snapshot when nothing matches
GetSnapshotOrNewest(snaps, snapshot_id) ==
    LET hits == {i \in 1..Len(snaps) : StartsWith(snaps[i].id, snapshot_id)}
    IN  IF hits = {} THEN (IF snaps = <<>> THEN 0 ELSE 1)
        ELSE CHOOSE i \in hits : \A j \in hits : i <= j

\* get_snapshot: position of the first snapshot whose id starts with
\* snapshot_id, 0 for None
GetSnapshot(snaps, snapshot_id) ==
    LET hits == {i \in 1..Len(snaps) : StartsWith(snaps[i].id, snapshot_id)}
    IN  IF hits = {} THEN 0 ELSE CHOOSE i \in hits : \A j \in hits : i <= j

\* the "for file_path in files" loop of create_snapshot; acc = [files, dir]
RECURSIVE BackupEach(_, _, _, _)
BackupEach(files, id, fsys, acc) ==
    IF files = <<>> THEN acc
    ELSE LET file_path == Head(files)
         IN  IF fsys[file_path] # Absent
             THEN BackupEach(Tail(files), id, fsys,
                    [files |-> Append(acc.files,
                                 SnapshotFile(file_path,
                                              BackupPath(id, file_path.name), TRUE)),
                     dir   |-> [acc.dir EXCEPT ![file_path.name] = fsys[file_path]]])
             ELSE BackupEach(Tail(files), id, fsys,
                    [files |-> Append(acc.files,
                                 SnapshotFile(file_path, EmptyPath, FALSE)),
                     dir   |-> acc.dir])

\* _cleanup_old popping the newest entry instead of the oldest
RECURSIVE CleanupOldFront(_, _, _)
CleanupOldFront(snaps, ds, max) ==
    IF Len(snaps) > max
    THEN CleanupOldFront(Tail(snaps), Rmtree(ds, Head(snaps).id), max)
    ELSE [snapshots |-> snaps, dirs |-> ds]

\* _cleanup_old: while len > max: pop the last, rmtree its directory
RECURSIVE CleanupOld(_, _, _)
CleanupOld(snaps, ds, max) ==
    IF Len(snaps) > max
    THEN LET old == snaps[Len(snaps)]
         IN  CleanupOld(SubSeq(snaps, 1, Len(snaps) - 1), Rmtree(ds, old.id), max)
    ELSE [snapshots |-> snaps, dirs |-> ds]

\* create_snapshot up to (not including) _save_index, as a function of the
\* manager's state; id is the value uuid4 returned
DoCreateSnapshot(description, files, modules, id, snaps, ds, fsys, now, max) ==
    LET made     == Mkdir(ds, id)
        copied   == BackupEach(files, id, fsys, [files |-> <<>>, dir |-> made[id].files])
        snapshot == [SnapshotCreate(id, now, description, modules)
                        EXCEPT !.files = copied.files,
                               !.taken = [p \in Paths |->
                                            IF \E i \in 1..Len(files) : files[i] = p
                                            THEN fsys[p] ELSE Absent]]
        filled   == [made EXCEPT ![id].files = copied.dir]
        cleaned  == CleanupOld(<<snapshot>> \o snaps, filled, max)
    IN  [snapshot |-> snapshot, snapshots |-> cleaned.snapshots, dirs |-> cleaned.dirs]

\* the restore loop of rollback without its else branch
RestoreFileNoUnlink(fsys, ds, file_info) ==
    IF file_info.existed /\ BackupExists(ds, file_info.backup_path)
    THEN [fsys EXCEPT ![file_info.original_path] =
                        ds[file_info.backup_path.dir].files[file_info.backup_path.name]]
    ELSE fsys

\* one iteration of the restore loop of rollback
RestoreFile(fsys, ds, file_info) ==
    IF file_info.existed
    THEN IF BackupExists(ds, file_info.backup_path)
         THEN [fsys EXCEPT ![file_info.original_path] =
                        ds[file_info.backup_path.dir].files[file_info.backup_path.name]]
         ELSE fsys
    ELSE [fsys EXCEPT ![file_info.original_path] = Absent]

RECURSIVE RestoreEach(_, _, _)
RestoreEach(files, fsys, ds) ==
    IF files = <<>> THEN fsys
    ELSE RestoreEach(Tail(files), RestoreFile(fsys, ds, Head(files)), ds)

PreRollbackDescription(id) == <<"Pre-rollback state (before ", id, ")">>

OriginalPaths(files) == [i \in 1..Len(files) |-> files[i].original_path]

NoFs == [p \in Paths |-> Absent]

\* what the last call was: its result, the snapshot it made (snap), the
\* snapshot it resolved (target) and the file system a rollback started from
Call(op, ret, snap, target) ==
    [op |-> op, ret |-> ret, snap |-> snap, target |-> target,
     count |-> IF op = "clear" THEN Len(snapshots) ELSE 0,
     pre |-> IF op = "rollback" /\ ret = TRUE THEN fs ELSE NoFs]

\* uuid4 does not repeat a value.  Ids that differ by a renaming of characters
\* behave alike (only equality and startswith are applied to them), so of the
\* unused ids of one kind the model takes the first: ids are of one kind when
\* they start with the same character or with characters no id has used yet.
Ord(x) == CHOOSE i \in 1..Len(CharOrder) : CharOrder[i] = x
Before(id1, id2) ==
    \/ Ord(id1[1]) < Ord(id2[1])
    \/ id1[1] = id2[1] /\ Ord(id1[2]) < Ord(id2[2])
FirstUsed(x) == \E u \in usedIds : u[1] = x
SameKind(id1, id2) ==
    \/ id1[1] = id2[1]
    \/ ~FirstUsed(id1[1]) /\ ~FirstUsed(id2[1])
FreshIds ==
    {id \in Ids \ usedIds :
        \A other \in Ids \ usedIds : SameKind(id, other) => ~Before(other, id)}

----
(***************************************************************************)
(* Actions of the RollbackManager specification                            *)
(***************************************************************************)

\* something outside the manager writes a file a snapshot may cover
WriteFile(p, c) ==
    /\ fs[p] # c
    /\ fs' = [fs EXCEPT ![p] = c]
    /\ last' = Call("write", TRUE, NoSnapshot, NoSnapshot)
    /\ UNCHANGED <<max_snapshots, snapshots, indexFile, dirs, usedIds, nCreated,
                   explicitRemoval>>
    /\ UNCHANGED idleVars

\* ... or deletes it
UnlinkFile(p) ==
    /\ fs[p] # Absent
    /\ fs' = [fs EXCEPT ![p] = Absent]
    /\ last' = Call("write", TRUE, NoSnapshot, NoSnapshot)
    /\ UNCHANGED <<max_snapshots, snapshots, indexFile, dirs, usedIds, nCreated,
                   explicitRemoval>>
    /\ UNCHANGED idleVars

\* create_snapshot where uuid4 returns id
CreateSnapshotWith(description, files, modules, id) ==
    /\ nCreated < MaxCreates
    /\ LET r == DoCreateSnapshot(description, files, modules, id, snapshots, dirs,
                                 fs, nCreated + 1, max_snapshots)
       IN  /\ snapshots' = r.snapshots
           /\ dirs' = r.dirs
           /\ indexFile' = SaveIndex(r.snapshots)
           /\ usedIds' = usedIds \cup {id}
           /\ last' = Call("create", TRUE, r.snapshot, NoSnapshot)
    /\ nCreated' = nCreated + 1
    /\ UNCHANGED <<max_snapshots, fs, explicitRemoval>>
    /\ UNCHANGED idleVars

CreateSnapshot(description, files, modules) ==
    \E id \in FreshIds : CreateSnapshotWith(description, files, modules, id)

RollbackNotFound(snapshot_id) ==
    /\ GetSnapshot(snapshots, snapshot_id) = 0
    /\ last' = Call("rollback", FALSE, NoSnapshot, NoSnapshot)
    /\ UNCHANGED <<max_snapshots, snapshots, indexFile, dirs, fs, usedIds, nCreated,
                   explicitRemoval>>
    /\ UNCHANGED idleVars

\* rollback where uuid4 returns id for the pre-rollback snapshot
RollbackWith(snapshot_id, id) ==
    /\ GetSnapshot(snapshots, snapshot_id) # 0
    /\ nCreated < MaxCreates
    /\ LET snapshot == snapshots[GetSnapshot(snapshots, snapshot_id)]
           r == DoCreateSnapshot(PreRollbackDescription(snapshot.id),
                                 OriginalPaths(snapshot.files), None, id,
                                 snapshots, dirs, fs, nCreated + 1, max_snapshots)
       IN  /\ snapshots' = r.snapshots
           /\ dirs' = r.dirs
           /\ indexFile' = SaveIndex(r.snapshots)
           /\ usedIds' = usedIds \cup {id}
           /\ fs' = RestoreEach(snapshot.files, fs, r.dirs)
           /\ last' = Call("rollback", TRUE, r.snapshot, snapshot)
    /\ nCreated' = nCreated + 1
    /\ UNCHANGED <<max_snapshots, explicitRemoval>>
    /\ UNCHANGED idleVars

Rollback(snapshot_id) ==
    \E id \in FreshIds : RollbackWith(snapshot_id, id)

\* a create_snapshot that puts the snapshot into the list before it copies
FailedCreateListedFirst(description, files, modules, k, id, now, snaps, ds, fsys) ==
    LET made   == Mkdir(ds, id)
        copied == BackupEach(SubSeq(files, 1, k - 1), id, fsys,
                             [files |-> <<>>, dir |-> made[id].files])
    IN  [snapshots |-> <<[SnapshotCreate(id, now, description, modules)
                             EXCEPT !.files = copied.files]>> \o snaps,
         dirs      |-> [made EXCEPT ![id].files = copied.dir]]

\* create_snapshot up to the exception, where copying the k-th file raises
\* OSError: the directory is made and the files before the k-th are copied;
\* the insert, _cleanup_old and _save_index are not reached
FailedCreate(description, files, modules, k, id, now, snaps, ds, fsys) ==
    LET made   == Mkdir(ds, id)
        copied == BackupEach(SubSeq(files, 1, k - 1), id, fsys,
                             [files |-> <<>>, dir |-> made[id].files])
    IN  [snapshots |-> snaps,
         dirs      |-> [made EXCEPT ![id].files = copied.dir]]

\* create_snapshot where copying the k-th file raises OSError
CreateSnapshotFails(description, files, modules, k) ==
    /\ nCreated < MaxCreates
    /\ k \in 1..Len(files)
    /\ fs[files[k]] # Absent
    /\ \E id \in FreshIds :
         LET r == FailedCreate(description, files, modules, k, id, nCreated + 1,
                               snapshots, dirs, fs)
         IN  /\ snapshots' = r.snapshots
             /\ dirs' = r.dirs
             /\ usedIds' = usedIds \cup {id}
    /\ nCreated' = nCreated + 1
    /\ last' = Call("create raised", FALSE, NoSnapshot, NoSnapshot)
    /\ UNCHANGED <<max_snapshots, indexFile, fs, explicitRemoval>>
    /\ UNCHANGED idleVars

\* does restoring file_info write or unlink a file
RestoreTouches(fsys, ds, file_info) ==
    IF file_info.existed
    THEN BackupExists(ds, file_info.backup_path)
    ELSE fsys[file_info.original_path] # Absent

\* rollback where the write or unlink of the k-th file raises OSError: the
\* pre-rollback snapshot is made, the files before the k-th are restored, and
\* the exception leaves the loop and rollback
RollbackFails(snapshot_id, k) ==
    /\ GetSnapshot(snapshots, snapshot_id) # 0
    /\ nCreated < MaxCreates
    /\ \E id \in FreshIds :
         LET snapshot == snapshots[GetSnapshot(snapshots, snapshot_id)]
             r == DoCreateSnapshot(PreRollbackDescription(snapshot.id),
                                   OriginalPaths(snapshot.files), None, id,
                                   snapshots, dirs, fs, nCreated + 1, max_snapshots)
             restored == RestoreEach(SubSeq(snapshot.files, 1, k - 1), fs, r.dirs)
         IN  /\ k \in 1..Len(snapshot.files)
             /\ RestoreTouches(restored, r.dirs, snapshot.files[k])
             /\ snapshots' = r.snapshots
             /\ dirs' = r.dirs
             /\ indexFile' = SaveIndex(r.snapshots)
             /\ usedIds' = usedIds \cup {id}
             /\ fs' = restored
             /\ last' = Call("rollback raised", FALSE, r.snapshot, snapshot)
    /\ nCreated' = nCreated + 1
    /\ UNCHANGED <<max_snapshots, explicitRemoval>>
    /\ UNCHANGED idleVars

DeleteSnapshot(snapshot_id) ==
    LET i == GetSnapshot(snapshots, snapshot_id)
    IN  /\ IF i = 0
           THEN /\ last' = Call("delete", FALSE, NoSnapshot, NoSnapshot)
                /\ UNCHANGED <<snapshots, indexFile, dirs, explicitRemoval>>
           ELSE LET snapshot == snapshots[i]
                    kept == SelectSeq(snapshots, LAMBDA s : s.id # snapshot.id)
                IN  /\ dirs' = Rmtree(dirs, snapshot.id)
                    /\ snapshots' = kept
                    /\ indexFile' = SaveIndex(kept)
                    /\ explicitRemoval' = TRUE
                    /\ last' = Call("delete", TRUE, NoSnapshot, NoSnapshot)
        /\ UNCHANGED <<max_snapshots, fs, usedIds, nCreated>>
        /\ UNCHANGED idleVars

RECURSIVE RmtreeEach(_, _)
RmtreeEach(snaps, ds) ==
    IF snaps = <<>> THEN ds ELSE RmtreeEach(Tail(snaps), Rmtree(ds, Head(snaps).id))

ClearAll ==
    /\ dirs' = RmtreeEach(snapshots, dirs)
    /\ snapshots' = <<>>
    /\ indexFile' = SaveIndex(<<>>)
    /\ explicitRemoval' = (explicitRemoval \/ snapshots # <<>>)
    /\ last' = Call("clear", TRUE, NoSnapshot, NoSnapshot)
    /\ UNCHANGED <<max_snapshots, fs, usedIds, nCreated>>
    /\ UNCHANGED idleVars

\* the config editor's variables while the RollbackManager specification runs
CfgIdle ==
    /\ cfg = [exists |-> FALSE, text |-> <<>>]
    /\ backupDir = <<>>
    /\ clock = 0
    /\ hist = <<>>

\* RollbackManager.__init__ on a directory without an index
Init ==
    /\ max_snapshots \in 0..MaxCap
    /\ snapshots = <<>>
    /\ indexFile = NoIndex
    /\ dirs = [id \in Ids |-> NoDir]
    /\ fs \in {f \in [Paths -> Contents \cup {Absent}] :
                  \A p \in Paths \ OnePath : f[p] = Absent}
    /\ usedIds = {}
    /\ nCreated = 0
    /\ explicitRemoval = FALSE
    /\ last = [op |-> "init", ret |-> TRUE, snap |-> NoSnapshot,
               target |-> NoSnapshot, count |-> 0, pre |-> NoFs]
    /\ CfgIdle
    /\ peer = <<>>
    /\ AppIdle

Next ==
    \/ \E p \in OnePath, c \in Contents : WriteFile(p, c)
    \/ \E p \in OnePath : UnlinkFile(p)
    \/ \E files \in FileLists, modules \in ModuleLists :
         CreateSnapshot(UserDescription, files, modules)
    \/ \E snapshot_id \in Prefixes : RollbackNotFound(snapshot_id)
    \/ \E snapshot_id \in Prefixes : Rollback(snapshot_id)
    \/ \E snapshot_id \in Prefixes : DeleteSnapshot(snapshot_id)
    \/ ClearAll

Spec == Init /\ [][Next]_vars

\* The same manager where uuid4 may return any value, one it returned before
\* included.
MaxIdCreates == 2    \* create_snapshot calls per behaviour with repeating ids

NextIds ==
    \/ \E p \in OnePath, c \in Contents : WriteFile(p, c)
    \/ \E p \in OnePath : UnlinkFile(p)
    \/ \E files \in FileLists, modules \in ModuleLists, id \in Ids :
         nCreated < MaxIdCreates
            /\ CreateSnapshotWith(UserDescription, files, modules, id)
    \/ \E snapshot_id \in Prefixes : RollbackNotFound(snapshot_id)
    \/ \E snapshot_id \in Prefixes, id \in Ids :
         nCreated < MaxIdCreates /\ RollbackWith(snapshot_id, id)
    \/ \E snapshot_id \in Prefixes : DeleteSnapshot(snapshot_id)
    \/ ClearAll

SpecIds == Init /\ [][NextIds]_vars

----
(***************************************************************************)
(* RollbackManager.__init__ on a directory that holds an index file        *)
(***************************************************************************)
JsonValue(kind) == [json |-> kind]          \* a value that is no object
IsObject(v) == "json" \notin DOMAIN v

\* SnapshotFile(**f): "" or the exception raised
SnapshotFileError(f) ==
    IF ~IsObject(f) THEN "TypeError"                      \* ** needs a mapping
    ELSE IF ~(DOMAIN f \subseteq {"original_path", "backup_path", "existed"})
         THEN "TypeError"                                 \* unexpected keyword
         ELSE IF ~({"original_path", "backup_path"} \subseteq DOMAIN f)
              THEN "TypeError"                            \* missing argument
              ELSE ""

\* SnapshotFile(**f) where it raises nothing; existed defaults to True
SnapshotFileFromDict(f) ==
    SnapshotFile(f.original_path, f.backup_path,
                 IF "existed" \in DOMAIN f THEN f.existed ELSE TRUE)

\* the first exception of a list of exceptions ("" for none)
RECURSIVE FirstError(_)
FirstError(errors) ==
    IF errors = <<>> THEN ""
    ELSE IF Head(errors) # "" THEN Head(errors) ELSE FirstError(Tail(errors))

\* Snapshot.from_dict: "" or the exception raised.  data.get("files", []) is
\* evaluated first, then SnapshotFile(**f) for each file, then data["id"],
\* data["created_at"], data["description"]
FromDictError(data) ==
    IF ~IsObject(data) THEN "AttributeError"              \* no attribute get
    ELSE LET files == IF "files" \in DOMAIN data THEN data.files ELSE <<>>
             bad   == FirstError([i \in 1..Len(files) |-> SnapshotFileError(files[i])])
         IN  IF bad # "" THEN bad
             ELSE IF ~({"id", "created_at", "description"} \subseteq DOMAIN data)
                  THEN "KeyError"
                  ELSE ""

\* Snapshot.from_dict where it raises nothing
FromDict(data) ==
    LET files == IF "files" \in DOMAIN data THEN data.files ELSE <<>>
    IN  [id          |-> data.id,
         created_at  |-> data.created_at,
         description |-> data.description,
         files       |-> [i \in 1..Len(files) |-> SnapshotFileFromDict(files[i])],
         modules     |-> IF "modules" \in DOMAIN data THEN data.modules ELSE <<>>,
         taken       |-> [p \in Paths |-> Absent]]

\* _load_index: the list loaded and the exception that leaves __init__ ("" for
\* none).  JSONDecodeError and KeyError are caught and give the empty list.
LoadIndex(doc) ==
    IF doc.json = "missing" THEN [snapshots |-> <<>>, raised |-> ""]
    ELSE IF doc.json = "invalid" THEN [snapshots |-> <<>>, raised |-> ""]
    ELSE IF doc.json \in {"null", "number"}
         THEN [snapshots |-> <<>>, raised |-> "TypeError"]  \* not iterable
    ELSE \* a list gives its entries, an object its keys, a string its characters
         LET error == FirstError([i \in 1..Len(doc.items) |-> FromDictError(doc.items[i])])
         IN  IF error = ""
             THEN [snapshots |-> [i \in 1..Len(doc.items) |-> FromDict(doc.items[i])],
                   raised |-> ""]
             ELSE IF error = "KeyError"
                  THEN [snapshots |-> <<>>, raised |-> ""]
                  ELSE [snapshots |-> <<>>, raised |-> error]

MaxEntries == 2      \* entries of an index file that holds a list

\* a snapshot of P1 taken by an earlier run, as to_dict wrote it
SavedFile == [original_path |-> P1, backup_path |-> BackupPath(<<"a", "a">>, "a"),
              existed |-> TRUE]
SavedEntry ==
    [id |-> <<"a", "a">>, created_at |-> 0, description |-> UserDescription,
     files |-> <<SavedFile>>, modules |-> <<"TestModule">>]

\* the entries of the index files tried
IndexEntries ==
    { SavedEntry,
      \* no "id"
      [created_at |-> 0, description |-> UserDescription,
       files |-> <<SavedFile>>, modules |-> <<"TestModule">>],
      \* no "files" and no "modules"
      [id |-> <<"a", "a">>, created_at |-> 0, description |-> UserDescription],
      \* a key too many
      [id |-> <<"a", "a">>, created_at |-> 0, description |-> UserDescription,
       files |-> <<SavedFile>>, modules |-> <<"TestModule">>, extra |-> 1],
      \* a file with a key too many
      [id |-> <<"a", "a">>, created_at |-> 0, description |-> UserDescription,
       files |-> <<[original_path |-> P1,
                    backup_path |-> BackupPath(<<"a", "a">>, "a"),
                    existed |-> TRUE, extra |-> 1]>>,
       modules |-> <<"TestModule">>],
      \* a file without "backup_path"
      [id |-> <<"a", "a">>, created_at |-> 0, description |-> UserDescription,
       files |-> <<[original_path |-> P1, existed |-> TRUE]>>,
       modules |-> <<"TestModule">>],
      \* not an object
      JsonValue("number") }

RECURSIVE SeqsUpTo(_, _)
SeqsUpTo(S, n) ==
    IF n = 0 THEN {<<>>}
    ELSE SeqsUpTo(S, n - 1) \cup
         {Append(q, x) : q \in {r \in SeqsUpTo(S, n - 1) : Len(r) = n - 1}, x \in S}

\* the index files tried
IndexDocs ==
    { NoIndex,
      [json |-> "invalid", items |-> <<>>],                     \* not JSON
      [json |-> "null", items |-> <<>>],
      [json |-> "number", items |-> <<>>],
      [json |-> "string", items |-> <<JsonValue("string")>>],   \* "x"
      [json |-> "object", items |-> <<>>],                      \* {}
      [json |-> "object", items |-> <<JsonValue("string")>>] }  \* {"x": 1}
    \cup {JsonList(items) : items \in SeqsUpTo(IndexEntries, MaxEntries)}

\* __init__: _load_index on the index file found
Construct ==
    /\ last.op = "start"
    /\ LET loaded == LoadIndex(indexFile)
       IN  /\ snapshots' = loaded.snapshots
           /\ last' = Call(IF loaded.raised = "" THEN "init" ELSE loaded.raised,
                           loaded.raised = "", NoSnapshot, NoSnapshot)
    /\ UNCHANGED <<max_snapshots, indexFile, dirs, fs, usedIds, nCreated,
                   explicitRemoval>>
    /\ UNCHANGED idleVars

\* a process about to construct its RollbackManager
InitLoad ==
    /\ max_snapshots \in 0..MaxCap
    /\ snapshots = <<>>
    /\ indexFile \in IndexDocs
    /\ dirs = [id \in Ids |-> NoDir]
    /\ fs = NoFs
    /\ usedIds = {}
    /\ nCreated = 0
    /\ explicitRemoval = FALSE
    /\ last = [op |-> "start", ret |-> TRUE, snap |-> NoSnapshot,
               target |-> NoSnapshot, count |-> 0, pre |-> NoFs]
    /\ CfgIdle
    /\ peer = <<>>
    /\ AppIdle

NextLoad == Construct

SpecLoad == InitLoad /\ [][NextLoad]_vars

----
\* the number of files of the snapshot snapshot_id resolves to
FileCount(snapshot_id) ==
    IF GetSnapshot(snapshots, snapshot_id) = 0 THEN 0
    ELSE Len(snapshots[GetSnapshot(snapshots, snapshot_id)].files)

\* the same manager, following two files of one base name in two directories,
\* where copying, writing and unlinking a file may fail with OSError
InitFiles ==
    /\ max_snapshots \in 0..MaxCap
    /\ snapshots = <<>>
    /\ indexFile = NoIndex
    /\ dirs = [id \in Ids |-> NoDir]
    /\ fs \in {f \in [Paths -> Contents \cup {Absent}] :
                  \A p \in Paths \ SamePaths : f[p] = Absent}
    /\ usedIds = {}
    /\ nCreated = 0
    /\ explicitRemoval = FALSE
    /\ last = [op |-> "init", ret |-> TRUE, snap |-> NoSnapshot,
               target |-> NoSnapshot, count |-> 0, pre |-> NoFs]
    /\ CfgIdle
    /\ peer = <<>>
    /\ AppIdle

NextFiles ==
    \/ \E p \in SamePaths, c \in Contents : WriteFile(p, c)
    \/ \E p \in SamePaths : UnlinkFile(p)
    \/ \E files \in BothFiles, modules \in ModuleLists :
         nCreated < MaxFileCreates /\ CreateSnapshot(UserDescription, files, modules)
    \/ \E snapshot_id \in Prefixes : RollbackNotFound(snapshot_id)
    \/ \E snapshot_id \in Prefixes :
         nCreated < MaxFileCreates /\ Rollback(snapshot_id)
    \/ \E files \in BothFiles, modules \in ModuleLists :
         \E k \in 1..Len(files) :
            nCreated < MaxFileCreates
               /\ CreateSnapshotFails(UserDescription, files, modules, k)
    \/ \E snapshot_id \in Prefixes :
         \E k \in 1..FileCount(snapshot_id) :
            nCreated < MaxFileCreates /\ RollbackFails(snapshot_id, k)
    \/ \E snapshot_id \in Prefixes : DeleteSnapshot(snapshot_id)
    \/ ClearAll

SpecFiles == InitFiles /\ [][NextFiles]_vars

\* The manager over the two files where a create_snapshot may fail, without
\* rollback.
NextFaults ==
    \/ \E p \in SamePaths, c \in Contents : WriteFile(p, c)
    \/ \E p \in SamePaths : UnlinkFile(p)
    \/ \E files \in BothFiles, modules \in ModuleLists :
         nCreated < MaxFileCreates /\ CreateSnapshot(UserDescription, files, modules)
    \/ \E files \in BothFiles, modules \in ModuleLists :
         \E k \in 1..Len(files) :
            nCreated < MaxFileCreates
               /\ CreateSnapshotFails(UserDescription, files, modules, k)
    \/ \E snapshot_id \in Prefixes : DeleteSnapshot(snapshot_id)
    \/ ClearAll

SpecFaults == InitFiles /\ [][NextFaults]_vars

----
(***************************************************************************)
(* Two RollbackManager instances on one snapshot directory.  Each keeps    *)
(* its own _snapshots; the index file and the directories are shared.      *)
(***************************************************************************)
\* the second instance is constructed: __init__ loads the index as it is now
ConstructPeer ==
    /\ LoadIndex(indexFile).raised = ""
    /\ peer' = LoadIndex(indexFile).snapshots
    /\ peer' # peer
    /\ last' = Call("peer init", TRUE, NoSnapshot, NoSnapshot)
    /\ UNCHANGED <<max_snapshots, snapshots, indexFile, dirs, fs, usedIds, nCreated,
                   explicitRemoval>>
    /\ UNCHANGED <<cfgVars, appVars>>

\* create_snapshot on the second instance: its own list is extended, pruned
\* and written to the index file
PeerCreateSnapshot(description, files, modules) ==
    /\ nCreated < MaxCreates
    /\ \E id \in FreshIds :
         LET r == DoCreateSnapshot(description, files, modules, id, peer, dirs,
                                   fs, nCreated + 1, max_snapshots)
         IN  /\ peer' = r.snapshots
             /\ dirs' = r.dirs
             /\ indexFile' = SaveIndex(r.snapshots)
             /\ usedIds' = usedIds \cup {id}
             /\ last' = Call("peer create", TRUE, r.snapshot, NoSnapshot)
    /\ nCreated' = nCreated + 1
    /\ UNCHANGED <<max_snapshots, snapshots, fs, explicitRemoval>>
    /\ UNCHANGED <<cfgVars, appVars>>

\* both instances are constructed with the same max_snapshots
NextPeers ==
    \/ \E p \in OnePath, c \in Contents : WriteFile(p, c)
    \/ \E p \in OnePath : UnlinkFile(p)
    \/ \E files \in FileLists, modules \in ModuleLists :
         CreateSnapshot(UserDescription, files, modules)
    \/ ConstructPeer
    \/ \E files \in FileLists, modules \in ModuleLists :
         PeerCreateSnapshot(UserDescription, files, modules)

SpecPeers == Init /\ [][NextPeers]_vars

----
(***************************************************************************)
(* InstallerService: install_module, uninstall_module, clean_config.  File *)
(* contents are opaque here; what a module writes is an input.  The copies *)
(* write_file leaves in BACKUP_DIR are not followed.                       *)
(***************************************************************************)
MaxInstallerOps == 2     \* create_snapshot calls per behaviour of the installer

DefaultMaxSnapshots == 20     \* get_rollback_manager: RollbackManager()
ModuleName == "TestModule"
Header == "header"            \* the text clean_config truncates the config to

BeforeInstalling(name) == <<"Before installing ", name>>
BeforeUninstalling(name) == <<"Before uninstalling ", name>>
BeforeClean == <<"Before clean">>

\* what an installer call was: as Call, with the file system it started from
InstallerCall(op, ret, snap) ==
    [Call(op, ret, snap, NoSnapshot) EXCEPT !.pre = fs]

\* save_config: CONFIG_FILE is rewritten from the configuration in memory
SaveConfig(fsys, toml) == [fsys EXCEPT ![CONFIG_FILE] = toml]

\* install_module where the module is not available: nothing is written
InstallModuleUnavailable(name) ==
    /\ last' = InstallerCall("install_module", FALSE, NoSnapshot)
    /\ last' # last
    /\ UNCHANGED <<max_snapshots, snapshots, indexFile, dirs, fs, usedIds, nCreated,
                   explicitRemoval>>
    /\ UNCHANGED idleVars

\* install_module of an available module: the snapshot of the shell config
\* file, module.install (which writes written to it on success), and on
\* success save_config
InstallModule(name, success, written, toml) ==
    /\ nCreated < MaxInstallerOps
    /\ \E id \in FreshIds :
         LET r == DoCreateSnapshot(BeforeInstalling(name), <<SHELL_CONFIG_FILE>>,
                                   <<name>>, id, snapshots, dirs, fs,
                                   nCreated + 1, max_snapshots)
         IN  /\ snapshots' = r.snapshots
             /\ dirs' = r.dirs
             /\ indexFile' = SaveIndex(r.snapshots)
             /\ usedIds' = usedIds \cup {id}
             /\ last' = InstallerCall("install_module", success, r.snapshot)
    /\ nCreated' = nCreated + 1
    /\ fs' = IF success
             THEN SaveConfig([fs EXCEPT ![SHELL_CONFIG_FILE] = written], toml)
             ELSE fs
    /\ UNCHANGED <<max_snapshots, explicitRemoval>>
    /\ UNCHANGED idleVars

\* uninstall_module: the snapshot, module.uninstall (remove_from_config writes
\* the file where it found the section; the result is always a success), then
\* save_config
UninstallModule(name, found, written, toml) ==
    /\ nCreated < MaxInstallerOps
    /\ found => fs[SHELL_CONFIG_FILE] # Absent
    /\ \E id \in FreshIds :
         LET r == DoCreateSnapshot(BeforeUninstalling(name), <<SHELL_CONFIG_FILE>>,
                                   <<name>>, id, snapshots, dirs, fs,
                                   nCreated + 1, max_snapshots)
         IN  /\ snapshots' = r.snapshots
             /\ dirs' = r.dirs
             /\ indexFile' = SaveIndex(r.snapshots)
             /\ usedIds' = usedIds \cup {id}
             /\ last' = InstallerCall("uninstall_module", TRUE, r.snapshot)
    /\ nCreated' = nCreated + 1
    /\ fs' = SaveConfig(IF found THEN [fs EXCEPT ![SHELL_CONFIG_FILE] = written]
                                 ELSE fs, toml)
    /\ UNCHANGED <<max_snapshots, explicitRemoval>>
    /\ UNCHANGED idleVars

\* clean_config: the snapshot of the shell config file and .zshrc, the config
\* truncated to its header where it has content, the source line taken out of
\* .zshrc where it is there (sourced), then save_config
CleanConfig(sourced, written, toml) ==
    /\ nCreated < MaxInstallerOps
    /\ sourced => fs[ZSHRC] # Absent
    /\ \E id \in FreshIds :
         LET r == DoCreateSnapshot(BeforeClean, <<SHELL_CONFIG_FILE, ZSHRC>>,
                                   <<>>, id, snapshots, dirs, fs,
                                   nCreated + 1, max_snapshots)
         IN  /\ snapshots' = r.snapshots
             /\ dirs' = r.dirs
             /\ indexFile' = SaveIndex(r.snapshots)
             /\ usedIds' = usedIds \cup {id}
             /\ last' = InstallerCall("clean_config", TRUE, r.snapshot)
    /\ nCreated' = nCreated + 1
    /\ LET cleaned == IF fs[SHELL_CONFIG_FILE] # Absent
                      THEN [fs EXCEPT ![SHELL_CONFIG_FILE] = Header] ELSE fs
           unsourced == IF sourced THEN [cleaned EXCEPT ![ZSHRC] = written]
                        ELSE cleaned
       IN  fs' = SaveConfig(unsourced, toml)
    /\ UNCHANGED <<max_snapshots, explicitRemoval>>
    /\ UNCHANGED idleVars

\* the installer's manager, constructed by get_rollback_manager
InitInstaller ==
    /\ max_snapshots = DefaultMaxSnapshots
    /\ snapshots = <<>>
    /\ indexFile = NoIndex
    /\ dirs = [id \in Ids |-> NoDir]
    /\ fs \in {f \in [Paths -> Contents \cup {Absent}] :
                  \A p \in Paths \ InstallerPaths : f[p] = Absent}
    /\ usedIds = {}
    /\ nCreated = 0
    /\ explicitRemoval = FALSE
    /\ last = [op |-> "init", ret |-> TRUE, snap |-> NoSnapshot,
               target |-> NoSnapshot, count |-> 0, pre |-> NoFs]
    /\ CfgIdle
    /\ peer = <<>>
    /\ AppIdle

NextInstaller ==
    \/ InstallModuleUnavailable(ModuleName)
    \/ \E success \in BOOLEAN, written, toml \in Contents :
         InstallModule(ModuleName, success, written, toml)
    \/ \E found \in BOOLEAN, written, toml \in Contents :
         UninstallModule(ModuleName, found, written, toml)
    \/ \E sourced \in BOOLEAN, written, toml \in Contents :
         CleanConfig(sourced, written, toml)
    \/ \E snapshot_id \in Prefixes :
         nCreated < MaxInstallerOps /\ Rollback(snapshot_id)

SpecInstaller == InitInstaller /\ [][NextInstaller]_vars

----
(***************************************************************************)
(* utils/files.py and BaseModule.check_installed                           *)
(*                                                                         *)
(* A text is a sequence of atoms: a newline, or a piece of a line.  The    *)
(* marker strings are atoms of their own, so that "marker in text" is the  *)
(* occurrence of the marker's atom.                                        *)
(***************************************************************************)
MaxOps == 3          \* add_to_config / remove_from_config calls per behaviour

Atom(k, n) == [k |-> k, n |-> n]
NL      == Atom("nl", "")            \* "\n"
Txt(s)  == Atom("txt", s)            \* text holding no marker and no whitespace at its ends
Hdr(n)  == Atom("hdr", n)            \* "##### n #####"
Brk(n)  == Atom("brk", n)            \* "#  [n]"
LegS(n) == Atom("legs", n)           \* "# >>> MyShell_RFD [n]"
LegE(n) == Atom("lege", n)           \* "# <<< MyShell_RFD [n]"

SectionNames == {"A", "B"}

RECURSIVE Flatten(_)
Flatten(lines) == IF lines = <<>> THEN <<>> ELSE Head(lines) \o Flatten(Tail(lines))

AsLines(ss) == [i \in 1..Len(ss) |-> <<Txt(ss[i]), NL>>]

CONFIG_HEADER ==
    Flatten(AsLines(<<
        "# ============================================================",
        "# MyShell_RFD Configuration",
        "# ============================================================",
        "# This file is managed by MyShell_RFD. Do not edit manually!",
        "# Your custom ZSH configuration should remain in ~/.zshrc",
        "#",
        "# To add/remove modules, use:",
        "#   myshell install <module>",
        "#   myshell uninstall <module>",
        "#",
        "# Or launch the TUI:",
        "#   myshell",
        "# ============================================================">>))
    \o <<NL>>

NoFile == [exists |-> FALSE, text |-> <<>>]
File(text) == [exists |-> TRUE, text |-> text]

\* str.__contains__ for a marker
Contains(text, marker) == \E i \in 1..Len(text) : text[i] = marker

IsSpace(a) == a.k = "nl"

\* str.strip
RECURSIVE LStrip(_)
LStrip(t) == IF t # <<>> /\ IsSpace(Head(t)) THEN LStrip(Tail(t)) ELSE t
RECURSIVE RStrip(_)
RStrip(t) ==
    IF t # <<>> /\ IsSpace(t[Len(t)]) THEN RStrip(SubSeq(t, 1, Len(t) - 1)) ELSE t
Strip(t) == RStrip(LStrip(t))

EndsWithNewline(t) == t # <<>> /\ t[Len(t)] = NL

\* str.splitlines(keepends=True)
RECURSIVE SplitLinesFrom(_, _, _)
SplitLinesFrom(t, cur, acc) ==
    IF t = <<>> THEN (IF cur = <<>> THEN acc ELSE Append(acc, cur))
    ELSE IF Head(t) = NL
         THEN SplitLinesFrom(Tail(t), <<>>, Append(acc, Append(cur, NL)))
         ELSE SplitLinesFrom(Tail(t), Append(cur, Head(t)), acc)
SplitLines(t) == SplitLinesFrom(t, <<>>, <<>>)

\* section_start_re = ^#  \[.+\]\s*$ matched at the start of a line
SectionStartRe(line) ==
    /\ line # <<>>
    /\ line[1].k = "brk"
    /\ \A i \in 2..Len(line) : IsSpace(line[i])

\* the "for line in lines" loop of remove_from_config
RECURSIVE RemoveLoop(_, _, _, _)
RemoveLoop(lines, new_start, skip_line, new_lines) ==
    IF lines = <<>> THEN new_lines
    ELSE LET line == Head(lines)
         IN  IF Contains(line, new_start)
             THEN RemoveLoop(Tail(lines), new_start, TRUE, new_lines)
             ELSE IF skip_line
                  THEN IF SectionStartRe(line)
                       THEN RemoveLoop(Tail(lines), new_start, FALSE,
                                       Append(new_lines, line))
                       ELSE RemoveLoop(Tail(lines), new_start, TRUE, new_lines)
                  ELSE RemoveLoop(Tail(lines), new_start, FALSE,
                                  Append(new_lines, line))

HasTripleNewline(t) ==
    \E i \in 1..Len(t) - 2 : t[i] = NL /\ t[i + 1] = NL /\ t[i + 2] = NL

\* str.replace("\n\n\n", "\n\n"): left to right, not overlapping
RECURSIVE ReplaceTriple(_)
ReplaceTriple(t) ==
    IF t = <<>> THEN <<>>
    ELSE IF Len(t) >= 3 /\ t[1] = NL /\ t[2] = NL /\ t[3] = NL
         THEN <<NL, NL>> \o ReplaceTriple(SubSeq(t, 4, Len(t)))
         ELSE <<Head(t)>> \o ReplaceTriple(Tail(t))

\* while "\n\n\n" in new_content: replace
RECURSIVE CollapseBlankLines(_)
CollapseBlankLines(t) ==
    IF HasTripleNewline(t) THEN CollapseBlankLines(ReplaceTriple(t)) ELSE t

\* the text remove_from_config writes
RemovedText(content, section_name) ==
    CollapseBlankLines(
        Flatten(RemoveLoop(SplitLines(content), Hdr(section_name), FALSE, <<>>)))

\* "\n{start_marker}\n{content.strip()}\n"
Section(section_name, content) == <<NL, Hdr(section_name), NL>> \o Strip(content) \o <<NL>>

\* append_file that first strips the end of the existing text
AppendFileStripped(existing, content) ==
    IF existing # <<>> THEN RStrip(existing) \o <<NL>> \o content ELSE content

\* append_file(path, content, backup=False, newline=True) on an existing file
AppendFile(existing, content) ==
    IF existing # <<>> /\ ~EndsWithNewline(existing)
    THEN existing \o <<NL>> \o content
    ELSE existing \o content

\* backup_file: a copy named by the second it is made in
BackupFile(dir, now, text) ==
    [t \in DOMAIN dir \cup {now} |-> IF t = now THEN text ELSE dir[t]]

\* the duplicate check of add_to_config looking for the marker check_installed
\* looks for
AlreadyPresentBracket(existing, section_name) == Contains(existing, Brk(section_name))

\* add_to_config: start_marker in existing
AlreadyPresent(existing, section_name) == Contains(existing, Hdr(section_name))

\* BaseModule.check_installed for a module of this name, reading file f
CheckInstalled(f, name) ==
    IF ~f.exists THEN FALSE
    ELSE Contains(f.text, Brk(name)) \/ Contains(f.text, LegS(name))

OpRecord(op, name, content, ret) ==
    [op |-> op, name |-> name, content |-> content, ret |-> ret, before |-> cfg,
     message |-> ""]

\* add_to_config: is the file missing, empty or blank
IsNew(f) == ~f.exists \/ f.text = <<>> \/ Strip(f.text) = <<>>

\* add_to_config as a function of the file: the file it leaves and its result
AddedToConfig(f, section_name, content) ==
    LET existing == IF IsNew(f) THEN CONFIG_HEADER ELSE f.text
    IN  IF AlreadyPresent(existing, section_name)
        THEN [file |-> File(existing), ret |-> FALSE]
        ELSE [file |-> File(AppendFile(existing, Section(section_name, content))),
              ret  |-> TRUE]

\* InstallResult: success and message
InstallResult(success, message) == [success |-> success, message |-> message]

\* ConfigOnlyModule.install for the module called name whose
\* get_config_content gives content; available is what check_available
\* returns.  The result and the file it leaves.
InstallConfigOnly(f, name, content, available) ==
    IF ~available
    THEN [file |-> f, result |-> InstallResult(FALSE, "Required binaries not found")]
    ELSE IF CheckInstalled(f, name)
         THEN [file |-> f, result |-> InstallResult(TRUE, "is already configured")]
         ELSE LET added == AddedToConfig(f, name, content)
              IN  IF added.ret
                  THEN [file |-> added.file, result |-> InstallResult(TRUE, "configured")]
                  ELSE [file |-> added.file,
                        result |-> InstallResult(FALSE, "Failed to configure")]

----
(***************************************************************************)
(* Actions of the config editor specification                              *)
(***************************************************************************)
AddToConfig(section_name, content, backup, tick) ==
    LET is_new   == ~cfg.exists \/ cfg.text = <<>> \/ Strip(cfg.text) = <<>>
        existing == IF is_new THEN CONFIG_HEADER ELSE cfg.text
        backedUp == is_new /\ backup /\ cfg.exists
    IN  /\ Len(hist) < MaxOps
        /\ backedUp \/ tick = 0
        /\ clock' = clock + tick
        /\ backupDir' = IF backedUp THEN BackupFile(backupDir, clock', cfg.text)
                        ELSE backupDir
        /\ IF AlreadyPresent(existing, section_name)
           THEN /\ cfg' = File(existing)
                /\ hist' = Append(hist, OpRecord("add", section_name, content, FALSE))
           ELSE /\ cfg' = File(AppendFile(existing, Section(section_name, content)))
                /\ hist' = Append(hist, OpRecord("add", section_name, content, TRUE))
        /\ UNCHANGED <<rbVars, appVars>>

\* ConfigOnlyModule.install; _add_config calls add_to_config with backup=True
Install(name, content, available, tick) ==
    LET done     == InstallConfigOnly(cfg, name, content, available)
        backedUp == available /\ ~CheckInstalled(cfg, name) /\ IsNew(cfg) /\ cfg.exists
    IN  /\ Len(hist) < MaxOps
        /\ backedUp \/ tick = 0
        /\ clock' = clock + tick
        /\ backupDir' = IF backedUp THEN BackupFile(backupDir, clock', cfg.text)
                        ELSE backupDir
        /\ cfg' = done.file
        /\ hist' = Append(hist,
                     [OpRecord("install", name, content, done.result.success)
                        EXCEPT !.message = done.result.message])
        /\ UNCHANGED <<rbVars, appVars>>

RemoveFromConfig(section_name, backup, tick) ==
    LET new_start == Hdr(section_name)
        found == cfg.exists /\ Contains(cfg.text, new_start)
    IN  /\ Len(hist) < MaxOps
        /\ (found /\ backup) \/ tick = 0
        /\ clock' = clock + tick
        /\ IF ~found
           THEN /\ hist' = Append(hist, OpRecord("remove", section_name, <<>>, FALSE))
                /\ UNCHANGED <<cfg, backupDir>>
           ELSE /\ backupDir' = IF backup THEN BackupFile(backupDir, clock', cfg.text)
                                ELSE backupDir
                /\ cfg' = File(RemovedText(cfg.text, section_name))
                /\ hist' = Append(hist, OpRecord("remove", section_name, <<>>, TRUE))
        /\ UNCHANGED <<rbVars, appVars>>

\* the section contents given to add_to_config
SectionContents ==
    { <<Txt("alias a='b'")>>,
      <<NL, Txt("export X=1"), NL, Txt("alias c='d'"), NL>>,
      <<Hdr("A"), NL, Txt("alias e='f'")>> }       \* holds a header-shaped line

\* get_config_content of the config-only module of each name
get_config_content ==
    [n \in SectionNames |->
        IF n = "A" THEN <<Txt("alias a='b'")>>
        ELSE <<NL, Txt("export X=1"), NL, Txt("alias c='d'"), NL>>]

\* the config files the editor is started on
InitialConfigs ==
    { NoFile,
      File(<<>>),
      File(<<NL>>),
      File(<<Txt("# existing"), NL>>),
      File(<<Txt("# existing")>>),
      File(<<Txt("# existing"), NL,
             LegS("A"), NL, Txt("legacy content"), NL, LegE("A"), NL,
             Txt("# after"), NL>>),
      File(<<Hdr("A"), NL, Txt("alias a='b'"), NL,
             Brk("B"), NL, Txt("alias c='d'"), NL>>),
      \* the header text of B inside a line, no line equal to it
      File(<<Txt("# existing"), NL,
             Txt("echo "), Hdr("B"), NL, Txt("# after"), NL>>) }

\* the RollbackManager's variables while the config editor specification runs
RbIdle ==
    /\ max_snapshots = 0
    /\ snapshots = <<>>
    /\ indexFile = NoIndex
    /\ dirs = [id \in Ids |-> NoDir]
    /\ fs = NoFs
    /\ usedIds = {}
    /\ nCreated = 0
    /\ explicitRemoval = FALSE
    /\ last = [op |-> "init", ret |-> TRUE, snap |-> NoSnapshot,
               target |-> NoSnapshot, count |-> 0, pre |-> NoFs]
    /\ peer = <<>>
    /\ AppIdle

InitConfig ==
    /\ cfg \in InitialConfigs
    /\ backupDir = <<>>
    /\ clock = 0
    /\ hist = <<>>
    /\ RbIdle

NextConfig ==
    \/ \E n \in SectionNames, c \in SectionContents, backup \in BOOLEAN, tick \in {0, 1} :
         AddToConfig(n, c, backup, tick)
    \/ \E n \in SectionNames, backup \in BOOLEAN, tick \in {0, 1} :
         RemoveFromConfig(n, backup, tick)
    \/ \E n \in SectionNames, available \in BOOLEAN, tick \in {0, 1} :
         Install(n, get_config_content[n], available, tick)

SpecConfig == InitConfig /\ [][NextConfig]_vars

\* the AppConfig of a process whose RollbackManager and config editor are idle
InitProfiles ==
    /\ RbIdle
    /\ CfgIdle

SpecProfiles == InitProfiles /\ [][NextProfiles]_vars

----
(***************************************************************************)
(* Properties of the RollbackManager (checked under Spec)                  *)
(***************************************************************************)
Min(a, b) == IF a <= b THEN a ELSE b

RolledBack == last.op = "rollback" /\ last.ret

IsPreRollback(s) ==
    /\ Len(s.description) = 3
    /\ s.description[1] = "Pre-rollback state (before "

\* C1: after rollback(s.id) returns True for a listed snapshot s, every file
\* s captured with existed=true has the content it had when s was created
C1_RollbackRoundTrip ==
    RolledBack =>
        \A i \in 1..Len(last.target.files) :
            LET f == last.target.files[i]
            IN  f.existed => fs[f.original_path] = last.target.taken[f.original_path]

\* C21: after a rollback to a snapshot of several existing files, whose backup
\* directory is still on disk, each original_path holds the bytes that same
\* path had when the snapshot was taken
C21_MultiFileRestore ==
    (/\ RolledBack
     /\ dirs[last.target.id].exists
     /\ Len(last.target.files) >= 2
     /\ \A i \in 1..Len(last.target.files) : last.target.files[i].existed) =>
        \A i \in 1..Len(last.target.files) :
            fs[last.target.files[i].original_path]
               = last.target.taken[last.target.files[i].original_path]

\* C22: no two snapshots of the list have the same id
C22_UniqueIds ==
    \A i, j \in 1..Len(snapshots) : i # j => snapshots[i].id # snapshots[j].id

\* C22, second part: a create_snapshot (made directly or by rollback) leaves
\* the backup files of every other snapshot it keeps in the list as they were
C22_KeepsOtherBackups ==
    [][(last'.op \in {"create", "rollback"} /\ last'.ret) =>
          \A i \in 1..Len(snapshots) :
             (/\ snapshots[i].id # last'.snap.id
              /\ \E j \in 1..Len(snapshots') : snapshots'[j] = snapshots[i]) =>
                 dirs'[snapshots[i].id] = dirs[snapshots[i].id]]_vars

\* the fields of a snapshot (what == of the dataclass compares)
Fields(s) ==
    [id |-> s.id, created_at |-> s.created_at, description |-> s.description,
     files |-> s.files, modules |-> s.modules]

\* C23: a manager constructed on the directory loads, without raising, a list
\* equal to the list in memory: the same snapshots in the same order, each with
\* the same id, time, description, files and modules
C23_IndexMirrorsMemory ==
    LET loaded == LoadIndex(indexFile)
    IN  /\ loaded.raised = ""
        /\ Len(loaded.snapshots) = Len(snapshots)
        /\ \A i \in 1..Len(snapshots) :
              Fields(loaded.snapshots[i]) = Fields(snapshots[i])

\* a rollback has returned True, the list holds the target and the pre-rollback
\* snapshot, both with a file, and the index file holds two entries
C23_Witness ==
    /\ RolledBack
    /\ Len(snapshots) = 2
    /\ \A i \in 1..2 : snapshots[i].files # <<>>
    /\ indexFile.json = "list"
    /\ Len(indexFile.items) = 2

\* the backup directory of snapshot s is on disk with a file at the
\* backup_path of every file s captured with existed=true
OnDisk(s) ==
    /\ dirs[s.id].exists
    /\ \A k \in 1..Len(s.files) :
          s.files[k].existed => BackupExists(dirs, s.files[k].backup_path)

\* every snapshot of the list is on disk, and no directory is left of a
\* snapshot that is no longer in the list
C27_ListOnDisk ==
    /\ \A i \in 1..Len(snapshots) : OnDisk(snapshots[i])
    /\ \A id \in usedIds :
          (\A i \in 1..Len(snapshots) : snapshots[i].id # id) => ~dirs[id].exists

\* C27: C27_ListOnDisk, and the target of a rollback is on disk when its files
\* are copied back (the directories are the same then as when it returns)
C27_IndexDiskConsistent ==
    /\ C27_ListOnDisk
    /\ RolledBack => OnDisk(last.target)

\* C28: a create_snapshot that fails while copying leaves the list in memory
\* and the index file as they were, and each listed snapshot on disk as it was
C28_FailedCreateKeepsList ==
    [][last'.op = "create raised" =>
          /\ snapshots' = snapshots
          /\ indexFile' = indexFile
          /\ \A i \in 1..Len(snapshots) :
                dirs'[snapshots[i].id] = dirs[snapshots[i].id]]_vars

\* a create_snapshot has failed after it copied its first file, on a list that
\* was full
C28_Witness ==
    /\ last.op = "create raised"
    /\ snapshots # <<>>
    /\ Len(snapshots) = max_snapshots
    /\ \E id \in usedIds :
          /\ \A i \in 1..Len(snapshots) : snapshots[i].id # id
          /\ dirs[id].exists
          /\ \E n \in BaseNames : dirs[id].files[n] # Absent

\* the ids of the entries of the index file
IndexedIds == {indexFile.items[i].id : i \in 1..Len(indexFile.items)}

\* C29: while no more snapshots were made than an instance keeps, every
\* snapshot either instance has made and holds in its list is in the index file
C29_TwoInstances ==
    nCreated <= max_snapshots =>
        /\ \A i \in 1..Len(snapshots) : snapshots[i].id \in IndexedIds
        /\ \A i \in 1..Len(peer) : peer[i].id \in IndexedIds

\* C2: a path that does not exist at create_snapshot is recorded with
\* existed=false and backup_path=""; after a rollback to that snapshot
\* returns True the path does not exist
C2_NonExistentCapture ==
    /\ \A s \in {snapshots[i] : i \in 1..Len(snapshots)} \cup {last.snap} :
         \A i \in 1..Len(s.files) :
            s.taken[s.files[i].original_path] = Absent =>
                /\ s.files[i].existed = FALSE
                /\ s.files[i].backup_path = EmptyPath
    /\ RolledBack =>
         \A i \in 1..Len(last.target.files) :
            LET f == last.target.files[i]
            IN  ~f.existed => fs[f.original_path] = Absent

\* a rollback has removed a file that was created after the snapshot recorded
\* its absence
C2_Witness ==
    /\ RolledBack
    /\ \E i \in 1..Len(last.target.files) :
         LET f == last.target.files[i]
         IN  /\ ~f.existed
             /\ f.backup_path = EmptyPath
             /\ last.pre[f.original_path] # Absent
             /\ fs[f.original_path] = Absent

\* C3: after rollback(s1) returns True the newest listed snapshot P is the
\* pre-rollback snapshot of the files of s1, and a rollback to a pre-rollback
\* snapshot restores every file it references to the content or absence it
\* had immediately before the first rollback
C3_RollbackOfRollback ==
    /\ RolledBack =>
         /\ snapshots # <<>>
         /\ Head(snapshots) = last.snap
         /\ last.snap.description = PreRollbackDescription(last.target.id)
         /\ OriginalPaths(last.snap.files) = OriginalPaths(last.target.files)
         /\ \A i \in 1..Len(last.target.files) :
              LET p == last.target.files[i].original_path
              IN  last.snap.taken[p] = last.pre[p]
    /\ (RolledBack /\ IsPreRollback(last.target)) =>
         \A i \in 1..Len(last.target.files) :
            LET p == last.target.files[i].original_path
            IN  fs[p] = last.target.taken[p]

\* C4: the list never holds more than max_snapshots entries, and while only
\* create_snapshot has changed it, it holds the min(n, max_snapshots) most
\* recently created snapshots, newest first
C4_RetentionCap ==
    /\ Len(snapshots) <= max_snapshots
    /\ ~explicitRemoval =>
         /\ Len(snapshots) = Min(nCreated, max_snapshots)
         /\ \A i \in 1..Len(snapshots) : snapshots[i].created_at = nCreated - i + 1

\* more snapshots were created than the cap of two allows, and two are left
C4_Witness ==
    /\ ~explicitRemoval
    /\ max_snapshots >= 2
    /\ nCreated > max_snapshots
    /\ Len(snapshots) = max_snapshots

\* C5: for every max_snapshots, the snapshot create_snapshot returns is in the
\* list and its backup directory exists
C5_KeepsNewSnapshot ==
    last.op = "create" =>
        /\ \E i \in 1..Len(snapshots) : snapshots[i] = last.snap
        /\ dirs[last.snap.id].exists

\* C12: clear_all returns the number of snapshots that were listed; after it
\* the list is empty, the persisted index is the empty list and no backup
\* directory is left under the snapshot root
C12_ClearAll ==
    [][last'.op = "clear" =>
         /\ last'.count = Len(snapshots)
         /\ snapshots' = <<>>
         /\ indexFile' = JsonList(<<>>)
         /\ \A id \in Ids : ~dirs'[id].exists]_vars

\* C18: when the write or unlink of one file of the target raises during
\* rollback, every file after it is still restored and rollback returns True
C18_BestEffortRestore ==
    [][\A x \in Prefixes : \A k \in 1..FileCount(x) :
         RollbackFails(x, k) =>
            LET target == snapshots[GetSnapshot(snapshots, x)]
            IN  /\ last'.ret = TRUE
                /\ fs' = RestoreEach(SubSeq(target.files, k + 1, Len(target.files)),
                                     fs', dirs')]_vars

\* is doc a list of objects with exactly the keys to_dict writes
WellFormed(doc) ==
    /\ doc.json = "list"
    /\ \A i \in 1..Len(doc.items) :
          LET e == doc.items[i]
          IN  /\ DOMAIN e = {"id", "created_at", "description", "files", "modules"}
              /\ \A k \in 1..Len(e.files) :
                    DOMAIN e.files[k] = {"original_path", "backup_path", "existed"}

\* C17: on an index file that is not a well-formed snapshot list the
\* constructor completes without raising and the list is empty
C17_CorruptIndex ==
    (last.op # "start" /\ ~WellFormed(indexFile)) =>
        /\ last.op = "init"
        /\ snapshots = <<>>

InstallerOps == {"install_module", "uninstall_module", "clean_config"}

\* C19: rolling back to the snapshot an installer operation made, right after
\* the operation, gives every file the content it had before the operation
C19_SnapshotBeforeMutation ==
    [][(/\ last.op \in InstallerOps
        /\ last.snap # NoSnapshot
        /\ last'.op = "rollback"
        /\ last'.target.id = last.snap.id)
       => fs' = last.pre]_vars

\* C19 for the files of the snapshot alone
C19_SnapshotFilesRestored ==
    [][(/\ last.op \in InstallerOps
        /\ last.snap # NoSnapshot
        /\ last'.op = "rollback"
        /\ last'.target.id = last.snap.id)
       => \A i \in 1..Len(last.snap.files) :
             fs'[last.snap.files[i].original_path]
                = last.pre[last.snap.files[i].original_path]]_vars

\* id begins with the characters of q
HasPrefix(id, q) == \A k \in 1..Len(q) : k <= Len(id) /\ id[k] = q[k]

\* the positions of the listed snapshots whose id begins with q
Matches(q) == {i \in 1..Len(snapshots) : HasPrefix(snapshots[i].id, q)}

\* C13: get_snapshot(p) is None when no listed id starts with p, otherwise the
\* most recently created snapshot among those whose id starts with p; a
\* prefix of an id that no other listed id starts with resolves to the
\* snapshot the full id resolves to
C13_PrefixLookup ==
    \A q \in Prefixes :
        LET r == GetSnapshot(snapshots, q)
        IN  /\ Matches(q) = {} => r = 0
            /\ Matches(q) # {} =>
                  /\ r \in Matches(q)
                  /\ \A j \in Matches(q) :
                        snapshots[r].created_at >= snapshots[j].created_at
            /\ Cardinality(Matches(q)) = 1 =>
                  \A i \in Matches(q) :
                     /\ r = i
                     /\ GetSnapshot(snapshots, snapshots[i].id) = i

\* two listed ids begin with the same character, and the lookup of that
\* character gives the newer of the two
C13_Witness ==
    \E q \in Prefixes :
        /\ Len(q) = 1
        /\ Cardinality(Matches(q)) = 2
        /\ GetSnapshot(snapshots, q) = 1

\* snaps without its i-th entry
Without(snaps, i) == SubSeq(snaps, 1, i - 1) \o SubSeq(snaps, i + 1, Len(snaps))

C15_RollbackUnknown ==
    [][\A x \in Prefixes :
         ((Rollback(x) \/ RollbackNotFound(x)) /\ Matches(x) = {}) =>
            /\ last'.op = "rollback"
            /\ last'.ret = FALSE
            /\ UNCHANGED <<snapshots, indexFile, dirs, fs, nCreated, usedIds>>]_vars

\* a rollback was refused while snapshots were listed
C15_Witness ==
    /\ last.op = "rollback"
    /\ ~last.ret
    /\ snapshots # <<>>

\* C16: the listed snapshots are in strictly decreasing order of creation,
\* and a call that creates a snapshot leaves a front part of the new snapshot
\* followed by the old list (entries are dropped from the old end only)
C16_NewestFirst ==
    [][/\ \A i, j \in 1..Len(snapshots') :
            i < j => snapshots'[i].created_at > snapshots'[j].created_at
       /\ nCreated' # nCreated =>
            \E k \in 0..(Len(snapshots) + 1) :
                snapshots' = SubSeq(<<last'.snap>> \o snapshots, 1, k)]_vars

\* after a deletion and a later creation two snapshots are listed, the newest
\* one and the first one made
C16_Witness ==
    /\ explicitRemoval
    /\ Len(snapshots) = 2
    /\ snapshots[1].created_at = 3
    /\ snapshots[2].created_at = 1

----
(***************************************************************************)
(* Properties of the config editor (checked under SpecConfig)              *)
(***************************************************************************)
\* the file after the i-th call
After(i) == IF i = Len(hist) THEN cfg ELSE hist[i + 1].before

\* sub occurs in text as a contiguous piece
ContainsSeq(text, sub) ==
    \E k \in 0..(Len(text) - Len(sub)) : SubSeq(text, k + 1, k + Len(sub)) = sub

\* C6: add_to_config(f, X, c) followed by add_to_config(f, X, c') returns
\* False the second time and leaves the file as the first call left it
C6_AddIdempotent ==
    \A i \in 1..Len(hist) - 1 :
        (/\ hist[i].op = "add"
         /\ hist[i + 1].op = "add"
         /\ hist[i + 1].name = hist[i].name) =>
            /\ hist[i + 1].ret = FALSE
            /\ After(i + 1) = After(i)

\* a section was written and then added again with another content
C6_Witness ==
    \E i \in 1..Len(hist) - 1 :
        /\ hist[i].op = "add" /\ hist[i].ret
        /\ hist[i + 1].op = "add" /\ hist[i + 1].name = hist[i].name
        /\ hist[i + 1].content # hist[i].content
        /\ ContainsSeq(cfg.text, Section(hist[i].name, hist[i].content))

\* C7: on a file with non-blank content C and no section X, add_to_config(f,
\* X, c) then remove_from_config(f, X) returns True and leaves the content C,
\* and the presence check for X is false
C7_AddRemoveRoundTrip ==
    \A i \in 1..Len(hist) - 1 :
        (/\ hist[i].op = "add"
         /\ hist[i + 1].op = "remove"
         /\ hist[i + 1].name = hist[i].name
         /\ hist[i].before.exists
         /\ Strip(hist[i].before.text) # <<>>
         /\ ~Contains(hist[i].before.text, Hdr(hist[i].name))) =>
            /\ hist[i + 1].ret = TRUE
            /\ After(i + 1) = hist[i].before
            /\ ~CheckInstalled(After(i + 1), hist[i].name)

\* C8: after two sections A and B were added (in either order) and A was
\* removed, the header of B followed by the content of B is still in the file
\* (that B is reported present is the subject of C10)
C8_NonInterference ==
    \A i \in 1..Len(hist) - 2 :
        (/\ hist[i].op = "add" /\ hist[i].ret
         /\ hist[i + 1].op = "add" /\ hist[i + 1].ret
         /\ hist[i + 2].op = "remove"
         /\ hist[i].name # hist[i + 1].name
         /\ hist[i + 2].name \in {hist[i].name, hist[i + 1].name}) =>
            LET b == IF hist[i + 2].name = hist[i].name THEN hist[i + 1] ELSE hist[i]
            IN  ContainsSeq(After(i + 2).text,
                            <<Hdr(b.name), NL>> \o Strip(b.content) \o <<NL>>)

\* the lines of text without those from the line of the legacy start marker
\* of name through the line of its end marker
RECURSIVE WithoutLegacy(_, _, _)
WithoutLegacy(lines, name, inside) ==
    IF lines = <<>> THEN <<>>
    ELSE LET line == Head(lines)
         IN  IF Contains(line, LegS(name))
             THEN WithoutLegacy(Tail(lines), name, TRUE)
             ELSE IF inside
                  THEN WithoutLegacy(Tail(lines), name, ~Contains(line, LegE(name)))
                  ELSE <<line>> \o WithoutLegacy(Tail(lines), name, FALSE)

LegacyOnly(f, name) ==
    /\ f.exists
    /\ Contains(f.text, LegS(name))
    /\ Contains(f.text, LegE(name))
    /\ ~Contains(f.text, Hdr(name))
    /\ ~Contains(f.text, Brk(name))

\* C9: on a file holding section Y in the legacy form only, the presence check
\* for Y is true and remove_from_config(f, Y) returns True and removes the
\* lines from the start marker through the end marker, and no other
C9_LegacyCompatible ==
    \A i \in 1..Len(hist) :
        (hist[i].op = "remove" /\ LegacyOnly(hist[i].before, hist[i].name)) =>
            /\ CheckInstalled(hist[i].before, hist[i].name)
            /\ hist[i].ret = TRUE
            /\ After(i).text =
                 Flatten(WithoutLegacy(SplitLines(hist[i].before.text),
                                       hist[i].name, FALSE))

\* C10: check_installed for X is True right after add_to_config(f, X, c)
\* returned True and False right after remove_from_config(f, X) returned True
C10_PresenceMatchesAdd ==
    \A i \in 1..Len(hist) :
        /\ (hist[i].op = "add" /\ hist[i].ret) => CheckInstalled(After(i), hist[i].name)
        /\ (hist[i].op = "remove" /\ hist[i].ret) => ~CheckInstalled(After(i), hist[i].name)

\* C11: install of an available config-only module on a file that holds
\* '##### name #####' returns success with the message "is already
\* configured" and leaves the file as it was; of two installs of one
\* available module in a row both return success
C11_InstallAlreadyConfigured ==
    /\ \A i \in 1..Len(hist) :
          (/\ hist[i].op = "install"
           /\ hist[i].message # "Required binaries not found"
           /\ hist[i].before.exists
           /\ Contains(hist[i].before.text, Hdr(hist[i].name))) =>
              /\ hist[i].ret = TRUE
              /\ hist[i].message = "is already configured"
              /\ After(i) = hist[i].before
    /\ \A i \in 1..Len(hist) - 1 :
          (/\ hist[i].op = "install"
           /\ hist[i + 1].op = "install"
           /\ hist[i + 1].name = hist[i].name
           /\ hist[i].message # "Required binaries not found"
           /\ hist[i + 1].message # "Required binaries not found") =>
              hist[i].ret = TRUE /\ hist[i + 1].ret = TRUE

\* the lines of text that are '##### name #####'
HeaderLines(text, name) ==
    {i \in 1..Len(SplitLines(text)) :
        SplitLines(text)[i] \in {<<Hdr(name)>>, <<Hdr(name), NL>>}}

\* C20: for every name X the file holds at most one line '##### X #####'
C20_SingleHeader ==
    \A n \in SectionNames : Cardinality(HeaderLines(cfg.text, n)) <= 1

\* position i of t ends an empty line
BlankAt(t, i) == i >= 1 /\ t[i] = NL /\ (i = 1 \/ t[i - 1] = NL)

\* t with every run of 3 or more blank lines cut down to its first 2
TwoBlankLines(t) ==
    LET keep == {i \in 1..Len(t) :
                    ~(BlankAt(t, i) /\ BlankAt(t, i - 1) /\ BlankAt(t, i - 2))}
        RECURSIVE Pick(_)
        Pick(i) == IF i > Len(t) THEN <<>>
                   ELSE (IF i \in keep THEN <<t[i]>> ELSE <<>>) \o Pick(i + 1)
    IN  Pick(1)

\* C24: the file a successful remove_from_config writes is the text left by
\* the deletion with every run of 3 or more blank lines collapsed to 2 and
\* every run of 1 or 2 blank lines as it was
C24_BlankLineNormalisation ==
    \A i \in 1..Len(hist) :
        (hist[i].op = "remove" /\ hist[i].ret) =>
            After(i).text =
                TwoBlankLines(Flatten(RemoveLoop(SplitLines(hist[i].before.text),
                                                 Hdr(hist[i].name), FALSE, <<>>)))

\* C25: remove_from_config on a missing file, or on a file none of whose lines
\* is the header of the name, returns False and leaves the file and the
\* backup directory as they were
C25_RemoveNothing ==
    [][\A n \in SectionNames :
         (/\ Len(hist') = Len(hist) + 1
          /\ hist'[Len(hist')].op = "remove"
          /\ hist'[Len(hist')].name = n
          /\ (~cfg.exists \/ HeaderLines(cfg.text, n) = {})) =>
             /\ hist'[Len(hist')].ret = FALSE
             /\ cfg' = cfg
             /\ backupDir' = backupDir]_vars

----
(***************************************************************************)
(* Properties of AppConfig (checked under SpecProfiles)                    *)
(***************************************************************************)
Unchanged ==
    /\ profiles = outcome.before.profiles
    /\ active_profile = outcome.before.active_profile

\* C30: active_profile names a profile of profiles; delete_profile of the
\* active profile, switch_profile to a missing profile and create_profile of
\* an existing name raise ValueError and leave the AppConfig as it was
C30_ActiveProfile ==
    /\ active_profile \in DOMAIN profiles
    /\ (outcome.op = "delete" /\ outcome.name = outcome.before.active_profile) =>
          (outcome.raised = "ValueError" /\ Unchanged)
    /\ (outcome.op = "switch" /\ outcome.name \notin DOMAIN outcome.before.profiles) =>
          (outcome.raised = "ValueError" /\ Unchanged)
    /\ (outcome.op = "create" /\ outcome.name \in DOMAIN outcome.before.profiles) =>
          (outcome.raised = "ValueError" /\ Unchanged)

\* delete_profile of the active profile has raised, on an AppConfig with
\* three profiles whose active profile is not the default one
C30_Witness ==
    /\ outcome.op = "delete"
    /\ outcome.name = active_profile
    /\ outcome.raised = "ValueError"
    /\ active_profile # "default"
    /\ DOMAIN profiles = ProfileNames
====
